---------------------------- MODULE Spec2Model ----------------------------
(***************************************************************************)
(* Liveness-detection component FaceVerification of Banking-security.      *)
(*                                                                         *)
(* The repository holds the component twice:                               *)
(*   "tsx"  : src/app/components/FaceVerification.tsx                      *)
(*   "part0": src/unnamed/part_000                                         *)
(* Both are modelled; the variable `variant` says which one a session      *)
(* runs.  Definitions of part_000 that share a name with the .tsx file     *)
(* carry the suffix _p0.                                                   *)
(*                                                                         *)
(* Numbers.  The code computes in floating point; the model computes in    *)
(* exact fixed point, on inputs for which every division below is exact:   *)
(*   EAR values        are integers in units of 1/EarScale,                *)
(*   probabilities     are integers in units of 1/ProbScale,               *)
(*   movement          is an integer in units of 1/MoveScale,              *)
(*   the score         is an integer in units of 1/ScoreScale.             *)
(***************************************************************************)
EXTENDS Integers, Sequences, FiniteSets, TLC

----------------------------------------------------------------------------
(* Bounds of the exploration *)

\* timer ticks (detector calls issued) per session
MaxTicks == 4
\* detector calls that may be pending at the same time
MaxInFlight == 2
\* play events of the video element per session
MaxPlays == 2
\* timer ticks of a session in the long sequential specification
MaxSeqTicks == 11
\* timer ticks of a session of a subject who blinks and moves
MaxWalkTicks == 11
\* highest blink count handed to the score and the message selection
MaxSignalBlinks == 4

----------------------------------------------------------------------------
(* Program constants *)

\* the length both histories are cut to (.tsx 145, 211; part_000 81, 130)
HistoryCap == 10
\* number of samples detectBlink needs before it compares (.tsx 195)
MinSamples == 3
\* number of highest samples the baseline averages, and its divisor (.tsx 152)
BaselineTop == 3
\* blinks the message selection asks for (.tsx 178)
RequiredBlinks == 2
\* points of an eye the EAR reads: eye[0] .. eye[5] (.tsx 131-133)
EyePoints == 6

\* fixed-point units
EarScale == 120 * 100
ProbScale == 10 * 10
MoveScale == 2520 * 1
ScoreScale == 2520 * 100

\* 0.65, 0.75 of a baseline; 0.3, 2, 0.3 and the cap 1 of the score;
\* 0.7 and 0.1 of the message selection
BlinkThresholdOf(baseline) == (baseline * 65) \div 100
\* DisplayThresholdOf with the blink factor 0.65
DisplayThresholdAsBlink(baseline) == (baseline * 65) \div 100
DisplayThresholdOf(baseline) == (baseline * 75) \div 100
ScoreCap == ScoreScale
ScoreGate == (ScoreScale * 7) \div 10
MovementGate == MoveScale \div 10

\* the messages the component publishes
MsgStarting == "Starting face verification..."
MsgLoading == "Loading face detection models..."
MsgModelsLoaded == "Models loaded successfully. Starting camera..."
MsgModelError == "Error loading face detection models. Please refresh the page."
MsgCameraStarted == "Camera started. Position your face in the center of the frame..."
MsgCameraStarted_p0 == "Camera started. Positioning your face in the center of the frame..."
MsgCameraError == "Error accessing camera. Please ensure camera permissions are granted."
MsgCameraError_p0 == "Error accessing camera. Please ensure camera permissions are granted and no other app is using it."
MsgNoFace == "No face detected. Please position your face in the center box."
MsgDetectionError == "Face detection error. Please ensure good lighting and face the camera."
MsgBlink0 == "Please blink naturally (0/2 blinks)"
MsgBlink1 == "Please blink naturally (1/2 blinks)"
MsgMove == "Please move your head slightly"
MsgVerified == "Live face verified! Natural movements detected."
MsgPosition == "Position your face in the box and blink naturally"

----------------------------------------------------------------------------
(* Arithmetic helpers *)

Abs(a) == IF a < 0 THEN -a ELSE a
Min2(a, b) == IF a < b THEN a ELSE b
Max2(a, b) == IF a > b THEN a ELSE b

\* Math.sqrt on the perfect squares the inputs produce; lo..hi brackets the root
Sqrt(n, lo, hi) == CHOOSE r \in lo..hi : r * r = n

RECURSIVE SumSeq(_)
SumSeq(s) == IF s = <<>> THEN 0 ELSE Head(s) + SumSeq(Tail(s))

\* [...a].sort((a, b) => b - a): descending insertion sort
RECURSIVE InsertDesc(_, _)
InsertDesc(v, s) ==
  IF s = <<>> THEN <<v>>
  ELSE IF v >= Head(s) THEN <<v>> \o s
  ELSE <<Head(s)>> \o InsertDesc(v, Tail(s))

RECURSIVE SortDesc(_)
SortDesc(s) == IF s = <<>> THEN <<>> ELSE InsertDesc(Head(s), SortDesc(Tail(s)))

\* a.slice(0, n)
SliceFirst(s, n) == SubSeq(s, 1, Min2(n, Len(s)))

\* PushCapped with pop() written for shift(): the newest entry is dropped
PushCappedPop(s, v) ==
  LET t == Append(s, v)
  IN IF Len(t) > HistoryCap THEN SubSeq(t, 1, HistoryCap) ELSE t

\* a.push(v); if (a.length > 10) a.shift()
PushCapped(s, v) ==
  LET t == Append(s, v)
  IN IF Len(t) > HistoryCap THEN Tail(t) ELSE t

----------------------------------------------------------------------------
(* Detector output: landmarks and expressions of one face *)

Pt(px, py) == [x |-> px, y |-> py]

\* an eye of width 300 px whose lids are t px above and below the corner line;
\* eye[i] of the code is Eye(t)[i + 1]
Eye(t) == << Pt(0, 0), Pt(100, 0 - t), Pt(200, 0 - t),
             Pt(300, 0), Pt(200, t), Pt(100, t) >>

Expr(h, s, n) == [happy |-> h, surprised |-> s, neutral |-> n]

\* one detection: both eyes with lid opening t, nose tip at (nx, 0); nose is
\* what getNose() returns, of which the code reads [0]
Face(t, nx, e) ==
  [leftEye |-> Eye(t), rightEye |-> Eye(t), nose |-> <<Pt(nx, 0)>>, expressions |-> e]

\* an eye whose corners eye[0] and eye[3] are the same point
PinchedEye(t) == [Eye(t) EXCEPT ![4] = Pt(0, 0)]

\* landmarks the detector can hand over damaged: an eye of 5 points, and no
\* nose point at all
ShortEye(t) == SubSeq(Eye(t), 1, 5)
ShortEyeFace(t, nx, e) == [Face(t, nx, e) EXCEPT !.leftEye = ShortEye(t)]
NoNoseFace(t, e) == [Face(t, 0, e) EXCEPT !.nose = <<>>]

----------------------------------------------------------------------------
(* The pure functions of FaceVerification.tsx.  A value the code names once  *)
(* and reads several times is a parameter of a helper operator here.         *)

\* Math.sqrt(Math.pow(dx, 2) + Math.pow(dy, 2))
Hypot(dx, dy) == Sqrt(dx * dx + dy * dy, Max2(Abs(dx), Abs(dy)), Abs(dx) + Abs(dy))

euclideanDistance(pt1, pt2) == Hypot(pt2.x - pt1.x, pt2.y - pt1.y)

\* EarRatio without the test of h: the vertical sum is returned for h = 0
EarRatioUnguarded(v1, v2, h) ==
  IF h > 0 THEN ((v1 + v2) * 3 * EarScale) \div (4 * h) ELSE v1 + v2

\* h > 0 ? ((v1 + v2) / (2.0 * h)) * 1.5 : 0
EarRatio(v1, v2, h) == IF h > 0 THEN ((v1 + v2) * 3 * EarScale) \div (4 * h) ELSE 0

\* getEAR of calculateEAR; eye[i] of the code is eye[i + 1] here
getEAR(eye) ==
  EarRatio(euclideanDistance(eye[2], eye[6]),
           euclideanDistance(eye[3], eye[5]),
           euclideanDistance(eye[1], eye[4]))

calculateEAR(leftEye, rightEye) == (getEAR(leftEye) + getEAR(rightEye)) \div 2

updateEARHistory(hist, currentEAR) == PushCapped(hist, currentEAR)

calculateBaselineEAR(hist) ==
  SumSeq(SliceFirst(SortDesc(hist), BaselineTop)) \div BaselineTop

\* FallingEdge with || written for &&
FallingEdgeEither(prev, currentEAR, threshold) == prev > threshold \/ currentEAR < threshold

\* the comparison of detectBlink: prev > threshold && currentEAR < threshold
FallingEdge(prev, currentEAR, threshold) == prev > threshold /\ currentEAR < threshold

\* CountBlink adding 2: the blink counted once more
CountBlinkTwice(blinkCount) == blinkCount + 2

\* blinkCountRef.current += 1
CountBlink(blinkCount) == blinkCount + 1

\* detectBlink: the blink count after the frame; hist already holds the
\* frame's sample (handleVideoPlay called updateEARHistory before)
detectBlink(hist, blinkCount, landmarks) ==
  IF Len(hist) >= MinSamples
  THEN IF FallingEdge(hist[Len(hist) - 1],
                      calculateEAR(landmarks.leftEye, landmarks.rightEye),
                      BlinkThresholdOf(calculateBaselineEAR(hist)))
       THEN CountBlink(blinkCount)
       ELSE blinkCount
  ELSE blinkCount

\* Manhattan length of the path through the stored positions
RECURSIVE TotalMovement(_)
TotalMovement(ps) ==
  IF Len(ps) < 2 THEN 0
  ELSE Abs(ps[2].x - ps[1].x) + Abs(ps[2].y - ps[1].y) + TotalMovement(Tail(ps))

\* MovementOf measuring each position from the origin instead of from the
\* position before it
MovementFromOrigin(ps) ==
  IF Len(ps) < 2 THEN 0
  ELSE (SumSeq([i \in 1 .. Len(ps) |-> Abs(ps[i].x) + Abs(ps[i].y)]) * MoveScale)
         \div Len(ps)

\* what detectMovement returns once the position is pushed
MovementOf(ps) ==
  IF Len(ps) < 2 THEN 0 ELSE (TotalMovement(ps) * MoveScale) \div Len(ps)

\* detectMovement: the position history after the frame
PositionsAfter(positions, landmarks) ==
  PushCapped(positions, Pt(landmarks.nose[1].x, landmarks.nose[1].y))

detectMovement(positions, landmarks) == MovementOf(PositionsAfter(positions, landmarks))

\* Math.max(expressions.happy, expressions.surprised, expressions.neutral)
ExpressionChange(expressions) ==
  Max2(Max2(expressions.happy, expressions.surprised), expressions.neutral)

\* blinkCount * 0.3 + movement * 2 + expressionChange * 0.3
WeightedSum(blinkCount, movement, expressionChange) ==
    (blinkCount * 3 * ScoreScale) \div 10
  + movement * 2 * (ScoreScale \div MoveScale)
  + (expressionChange * 3 * ScoreScale) \div (10 * ProbScale)

\* LivenessScoreOf without Math.min
LivenessScoreUncapped(blinkCount, movement, expressionChange) ==
  WeightedSum(blinkCount, movement, expressionChange)

\* Math.min(blinkCount * 0.3 + movement * 2 + expressionChange * 0.3, 1)
LivenessScoreOf(blinkCount, movement, expressionChange) ==
  Min2(WeightedSum(blinkCount, movement, expressionChange), ScoreCap)

\* GuidanceMessage without the blink and movement tests: score > 0.7 alone
\* gives the verified message
GuidanceMessageScoreOnly(score, blinkCount, movement) ==
  IF score > ScoreGate THEN MsgVerified ELSE MsgPosition

\* GuidanceMessage with the movement test ahead of the blink test
GuidanceMessageMoveFirst(score, blinkCount, movement) ==
  IF score > ScoreGate
  THEN IF movement < MovementGate THEN MsgMove
       ELSE IF blinkCount < RequiredBlinks
       THEN (IF blinkCount = 0 THEN MsgBlink0 ELSE MsgBlink1)
       ELSE MsgVerified
  ELSE MsgPosition

\* the message updateLivenessScore publishes
GuidanceMessage(score, blinkCount, movement) ==
  IF score > ScoreGate
  THEN IF blinkCount < RequiredBlinks
       THEN (IF blinkCount = 0 THEN MsgBlink0 ELSE MsgBlink1)
       ELSE IF movement < MovementGate THEN MsgMove ELSE MsgVerified
  ELSE MsgPosition

\* setLivenessScore(score); setMessage(...): what updateLivenessScore leaves
Publish(blinkCount, ps, movement, score) ==
  [blink |-> blinkCount, pos |-> ps, movement |-> movement, score |-> score,
   message |-> GuidanceMessage(score, blinkCount, movement)]

\* the score and the message of updateLivenessScore from the three signals
Assess(blinkCount, ps, movement, expressionChange) ==
  Publish(blinkCount, ps, movement,
          LivenessScoreOf(blinkCount, movement, expressionChange))

\* updateLivenessScore once detectBlink has returned and detectMovement has
\* pushed the position
Scored(blinkCount, ps, expressions) ==
  Assess(blinkCount, ps, MovementOf(ps), ExpressionChange(expressions))

\* updateLivenessScore: the count, the positions and what it publishes;
\* hist holds the frame's sample, positions not yet
updateLivenessScore(hist, positions, blinkCount, detection) ==
  Scored(detectBlink(hist, blinkCount, detection),
         PositionsAfter(positions, detection),
         detection.expressions)

\* currentEAR < baselineEAR * 0.75
IsEyeClosed(currentEAR, baselineEAR) == currentEAR < DisplayThresholdOf(baselineEAR)

\* everything a face frame leaves: the refs, the published state, and the
\* values the callback draws
FrameResult(hist, currentEAR, isEyeClosed, r) ==
  [ear |-> hist, pos |-> r.pos, blink |-> r.blink, score |-> r.score,
   message |-> r.message, movement |-> r.movement,
   currentEAR |-> currentEAR, isEyeClosed |-> isEyeClosed]

\* the face branch of the interval callback, from updateEARHistory on
FaceBranchWith(hist1, positions, blinkCount, detection, currentEAR) ==
  FrameResult(hist1, currentEAR,
              IsEyeClosed(currentEAR, calculateBaselineEAR(hist1)),
              updateLivenessScore(hist1, positions, blinkCount, detection))

FaceBranchOf(hist, positions, blinkCount, detection, currentEAR) ==
  FaceBranchWith(updateEARHistory(hist, currentEAR), positions, blinkCount,
                 detection, currentEAR)

\* the face branch of the interval callback (resizedDetections.length > 0)
FaceBranch(hist, positions, blinkCount, detection) ==
  FaceBranchOf(hist, positions, blinkCount, detection,
               calculateEAR(detection.leftEye, detection.rightEye))

\* NoFaceBranch that also pushes an EAR sample of 0 for the empty frame
NoFaceBranchPushing(hist, positions, blinkCount, score) ==
  [ear |-> PushCapped(hist, 0), pos |-> positions, blink |-> blinkCount,
   score |-> score, message |-> MsgNoFace]

\* the else branch: only setMessage
NoFaceBranch(hist, positions, blinkCount, score) ==
  [ear |-> hist, pos |-> positions, blink |-> blinkCount, score |-> score,
   message |-> MsgNoFace]

\* the catch of the interval callback: only setMessage
CatchBranch(hist, positions, blinkCount, score) ==
  [ear |-> hist, pos |-> positions, blink |-> blinkCount, score |-> score,
   message |-> MsgDetectionError]

\* getEAR reads eye[5].x: a TypeError when the eye holds fewer than 6 points
getEARThrows(eye) == Len(eye) < EyePoints

calculateEARThrows(leftEye, rightEye) == getEARThrows(leftEye) \/ getEARThrows(rightEye)

\* detectMovement reads getNose()[0].x: a TypeError when there is no nose point
detectMovementThrows(landmarks) == Len(landmarks.nose) = 0

\* whether the face branch throws on this detection
FaceBranchThrows(detection) ==
  calculateEARThrows(detection.leftEye, detection.rightEye) \/ detectMovementThrows(detection)

\* the face branch thrown out of detectMovement: updateEARHistory and
\* detectBlink have written, setLivenessScore is not reached, the catch runs
ThrownAtMovement(hist1, positions, blinkCount, score, detection) ==
  CatchBranch(hist1, positions, detectBlink(hist1, blinkCount, detection), score)

\* the face branch when it throws: calculateEAR throws before anything is
\* written, detectMovement after the sample and the blink count are
ThrownBranch(hist, positions, blinkCount, score, detection) ==
  IF calculateEARThrows(detection.leftEye, detection.rightEye)
  THEN CatchBranch(hist, positions, blinkCount, score)
  ELSE ThrownAtMovement(updateEARHistory(hist,
                          calculateEAR(detection.leftEye, detection.rightEye)),
                        positions, blinkCount, score, detection)

----------------------------------------------------------------------------
(* The pure functions of part_000 *)

\* getEyeAspectRatio: its catch returns 0 when a point is undefined
getEyeAspectRatio(eye) ==
  IF Len(eye) < EyePoints THEN 0
  ELSE EarRatio(euclideanDistance(eye[2], eye[6]),
                euclideanDistance(eye[3], eye[5]),
                euclideanDistance(eye[1], eye[4]))

\* const ear = (leftEAR + rightEAR) / 2.0
BothEyes_p0(landmarks) ==
  (getEyeAspectRatio(landmarks.leftEye) + getEyeAspectRatio(landmarks.rightEye)) \div 2

\* sortedEARs.slice(0, 3).reduce((a, b) => a + b, 0) / 3
BaselineOf_p0(hist) == SumSeq(SliceFirst(SortDesc(hist), BaselineTop)) \div BaselineTop

\* detectBlink of part_000 from its own push on: hist2 holds the frame's
\* sample twice, handleVideoPlay having pushed it before
BlinkAfterPush_p0(hist2, blinkCount, ear, threshold) ==
  IF Len(hist2) >= MinSamples
  THEN IF hist2[Len(hist2) - 1] > threshold /\ ear < threshold
       THEN blinkCount + 1
       ELSE blinkCount
  ELSE blinkCount

\* detectBlink of part_000 once it has pushed: the history and the count
BlinkResult_p0(hist2, blinkCount, ear) ==
  [ear |-> hist2,
   blink |-> BlinkAfterPush_p0(hist2, blinkCount, ear,
                               BlinkThresholdOf(BaselineOf_p0(hist2)))]

\* detectBlink of part_000 once it has computed ear
BlinkWith_p0(hist, blinkCount, ear) ==
  BlinkResult_p0(PushCapped(hist, ear), blinkCount, ear)

\* detectBlink of part_000: the history and the blink count after the frame
detectBlink_p0(hist, blinkCount, landmarks) ==
  BlinkWith_p0(hist, blinkCount, BothEyes_p0(landmarks))

detectEyeState(currentEAR, baselineEAR) == currentEAR < DisplayThresholdOf(baselineEAR)

\* the face branch of part_000 once detectBlink has returned b
AfterBlink_p0(b, positions, detection, currentEAR, isEyeClosed) ==
  FrameResult(b.ear, currentEAR, isEyeClosed,
              Scored(b.blink, PositionsAfter(positions, detection),
                     detection.expressions))

\* the face branch of part_000 from its push of currentEAR on
FaceBranchWith_p0(hist1, positions, blinkCount, detection, currentEAR) ==
  AfterBlink_p0(detectBlink_p0(hist1, blinkCount, detection), positions, detection,
                currentEAR, detectEyeState(currentEAR, BaselineOf_p0(hist1)))

FaceBranchOf_p0(hist, positions, blinkCount, detection, currentEAR) ==
  FaceBranchWith_p0(PushCapped(hist, currentEAR), positions, blinkCount,
                    detection, currentEAR)

\* the face branch of the interval callback of part_000
FaceBranch_p0(hist, positions, blinkCount, detection) ==
  FaceBranchOf_p0(hist, positions, blinkCount, detection, BothEyes_p0(detection))

\* the face branch of part_000 throws only out of detectMovement (its
\* getEyeAspectRatio and detectBlink catch)
FaceBranchThrows_p0(detection) == detectMovementThrows(detection)

\* ... after detectBlink has returned b: both pushes and the count stay
ThrownAfterBlink_p0(b, positions, score) == CatchBranch(b.ear, positions, b.blink, score)

ThrownBranch_p0(hist, positions, blinkCount, score, detection) ==
  ThrownAfterBlink_p0(detectBlink_p0(PushCapped(hist, BothEyes_p0(detection)),
                                     blinkCount, detection),
                      positions, score)

----------------------------------------------------------------------------
(* Inputs of the exploration *)

\* lid openings 5, 10, 30 (EAR 0.05, 0.10, 0.30), nose columns 0 and 3,
\* expressions with the highest probability 0.5 and 1
Calm == Expr(0, 0, 50)
Smiling == Expr(100, 0, 0)
Faces == { Face(t, nx, Smiling) : t \in {5, 30}, nx \in {0, 3} }
SeqFaces == { Face(t, 0, Calm) : t \in {5, 10, 30} }
\* eyes open with the nose at column 0, eyes nearly shut with the nose at 3
WalkFaces == { Face(30, 0, Calm), Face(10, 3, Calm) }
\* the signals handed to the score: blink counts, movements 0, 0.075, 0.1,
\* 0.15, 0.5 px per frame, expression probabilities 0, 0.5, 1
SignalBlinks == 0 .. MaxSignalBlinks
SignalMovements == { 0, (MoveScale * 3) \div 40, MoveScale \div 10,
                     (MoveScale * 3) \div 20, MoveScale \div 2 }
SignalExpressions == { 0, ProbScale \div 2, ProbScale }
\* sound faces (eyes shut, half shut, open), faces with a pinched eye, a face
\* with a 5-point eye, faces without a nose point
SoundFaces == { Face(t, 0, Smiling) : t \in {5, 18, 30} }
PinchedFaces ==
  { [Face(30, 0, Smiling) EXCEPT !.leftEye = PinchedEye(30)],
    [Face(30, 0, Smiling) EXCEPT !.rightEye = PinchedEye(5)],
    [Face(5, 0, Smiling) EXCEPT !.leftEye = PinchedEye(5), !.rightEye = PinchedEye(30)] }
DamagedFaces == { ShortEyeFace(30, 0, Smiling), NoNoseFace(30, Smiling), NoNoseFace(5, Smiling) }

----------------------------------------------------------------------------
(* State *)

VARIABLES
  variant,            \* "tsx" or "part0": the source file the session runs
  phase,              \* loadModels / startVideo: "loading", "camera", "streaming",
                      \* "modelError", "cameraError"
  mounted,            \* FALSE once the cleanup of useEffect has run
  stream,             \* videoRef.current.srcObject: "none", "attached", "stopped",
                      \* "detached" (acquired after unmount, never attached)
  timers,             \* ids of the intervals that are running
  timerCount,         \* setInterval calls so far; ids are 1..timerCount
  intervalIdRef,      \* intervalIdRef.current of the .tsx file, 0 for null
  ticks,              \* interval callbacks started so far; a callback's id
  inflight,           \* callbacks suspended in await detectAllFaces(...)
  lastEARRef,         \* lastEARRef.current
  lastPositionsRef,   \* lastPositionsRef.current
  blinkCountRef,      \* blinkCountRef.current
  livenessScore,      \* useState livenessScore
  message,            \* useState message
  \* observers: they record what happened and steer nothing
  last,               \* the callback that completed last and what it did
  prevFaceEAR,        \* EAR of the face frame processed before, -1 if none
  closedRun,          \* face frames in a row, up to the last one, below their threshold
  still,              \* whether all face frames so far share EAR and nose
  everVerified,       \* MsgVerified has been published
  failed,             \* a detector call has thrown
  published           \* frame callbacks that have published (setMessage) so far

refs == <<lastEARRef, lastPositionsRef, blinkCountRef>>
shown == <<livenessScore, message>>
life == <<variant, phase, mounted, stream>>
sched == <<timers, timerCount, intervalIdRef>>
calls == <<ticks, inflight>>
observers == <<last, prevFaceEAR, closedRun, still, everVerified, failed, published>>
vars == <<life, sched, calls, refs, shown, observers>>

\* what is wrong with the landmarks of a detection: "eye", "nose" or "ok"
Damage(detection) ==
  IF detectMovementThrows(detection) THEN "nose"
  ELSE IF calculateEARThrows(detection.leftEye, detection.rightEye) THEN "eye"
  ELSE "ok"

NoFrame ==
  [kind |-> "none", tick |-> 0, ear |-> 0, prev |-> -1, len |-> 0,
   threshold |-> 0, inc |-> 0, closed |-> FALSE, run |-> 0, movement |-> 0,
   damage |-> "ok", nose |-> Pt(0, 0), expression |-> 0, noseRun |-> 0,
   eyes |-> <<0, 0>>, pinched |-> <<FALSE, FALSE>>, baseline |-> 0]

Init ==
  /\ variant \in {"tsx", "part0"}
  /\ phase = "loading"
  /\ mounted = TRUE
  /\ stream = "none"
  /\ timers = {}
  /\ timerCount = 0
  /\ intervalIdRef = 0
  /\ ticks = 0
  /\ inflight = {}
  /\ lastEARRef = <<>>
  /\ lastPositionsRef = <<>>
  /\ blinkCountRef = 0
  /\ livenessScore = 0
  /\ message = MsgLoading
  /\ last = NoFrame
  /\ prevFaceEAR = -1
  /\ closedRun = 0
  /\ still = [seen |-> FALSE, same |-> TRUE, ear |-> 0, nose |-> Pt(0, 0)]
  /\ everVerified = FALSE
  /\ failed = FALSE
  /\ published = 0

\* a streaming session at the point where updateLivenessScore holds the
\* three signals of a face frame: last holds the movement and the expression
\* change, blinkCountRef the blink count
InitSignals ==
  /\ variant \in {"tsx", "part0"}
  /\ phase = "streaming"
  /\ mounted = TRUE
  /\ stream = "attached"
  /\ timers = {1}
  /\ timerCount = 1
  /\ intervalIdRef = (IF variant = "tsx" THEN 1 ELSE 0)
  /\ ticks = 1
  /\ inflight = {}
  /\ lastEARRef = <<>>
  /\ lastPositionsRef = <<>>
  /\ blinkCountRef \in SignalBlinks
  /\ livenessScore = 0
  /\ message = (IF variant = "tsx" THEN MsgCameraStarted ELSE MsgCameraStarted_p0)
  /\ \E m \in SignalMovements : \E e \in SignalExpressions :
       last = [NoFrame EXCEPT !.kind = "signals", !.tick = 1,
                              !.movement = m, !.expression = e]
  /\ prevFaceEAR = -1
  /\ closedRun = 0
  /\ still = [seen |-> FALSE, same |-> TRUE, ear |-> 0, nose |-> Pt(0, 0)]
  /\ everVerified = FALSE
  /\ failed = FALSE
  /\ published = 0

----------------------------------------------------------------------------
(* loadModels, startVideo, the cleanup *)

\* await Promise.all([...loadFromUri]) resolves
LoadModelsOk ==
  /\ phase = "loading"
  /\ phase' = "camera"
  /\ message' = MsgModelsLoaded
  /\ UNCHANGED <<variant, mounted, stream, sched, calls, refs, livenessScore, observers>>

\* ... or rejects
LoadModelsFail ==
  /\ phase = "loading"
  /\ phase' = "modelError"
  /\ message' = MsgModelError
  /\ UNCHANGED <<variant, mounted, stream, sched, calls, refs, livenessScore, observers>>

\* getUserMedia resolves; the stream is attached if videoRef.current is set
StartVideoOk ==
  /\ phase = "camera"
  /\ phase' = "streaming"
  /\ IF mounted
     THEN /\ stream' = "attached"
          /\ message' = IF variant = "tsx" THEN MsgCameraStarted ELSE MsgCameraStarted_p0
     ELSE /\ stream' = "detached"
          /\ message' = message
  /\ UNCHANGED <<variant, mounted, sched, calls, refs, livenessScore, observers>>

StartVideoFail ==
  /\ phase = "camera"
  /\ phase' = "cameraError"
  /\ message' = IF variant = "tsx" THEN MsgCameraError ELSE MsgCameraError_p0
  /\ UNCHANGED <<variant, mounted, stream, sched, calls, refs, livenessScore, observers>>

\* the timers the cleanup leaves running
TimersAfterCleanup ==
  IF variant = "tsx" /\ intervalIdRef # 0 THEN timers \ {intervalIdRef} ELSE timers

\* the function useEffect returns: stop the tracks; the .tsx file also
\* clears the interval intervalIdRef names
Cleanup ==
  /\ mounted
  /\ mounted' = FALSE
  /\ stream' = IF stream = "attached" THEN "stopped" ELSE stream
  /\ timers' = TimersAfterCleanup
  /\ UNCHANGED <<variant, phase, timerCount, intervalIdRef, calls, refs, shown, observers>>

\* onPlay={handleVideoPlay}: start an interval; the .tsx file stores its id in
\* intervalIdRef, part_000 in a local (the function it returns is dropped)
handleVideoPlay(maxPlays) ==
  /\ mounted
  /\ stream = "attached"
  /\ timerCount < maxPlays
  /\ timerCount' = timerCount + 1
  /\ timers' = timers \cup {timerCount + 1}
  /\ intervalIdRef' = IF variant = "tsx" THEN timerCount + 1 ELSE intervalIdRef
  /\ UNCHANGED <<life, calls, refs, shown, observers>>

----------------------------------------------------------------------------
(* The interval callback *)

\* the interval fires: the callback runs up to await detectAllFaces(...)
Tick(t, maxTicks, maxInFlight) ==
  /\ t \in timers
  /\ ticks < maxTicks
  /\ Cardinality(inflight) < maxInFlight
  /\ ticks' = ticks + 1
  /\ inflight' = inflight \cup {ticks + 1}
  /\ UNCHANGED <<life, sched, refs, shown, observers>>

StillAfter(ear, nose) ==
  IF ~still.seen THEN [seen |-> TRUE, same |-> TRUE, ear |-> ear, nose |-> nose]
  ELSE IF still.same /\ still.ear = ear /\ still.nose = nose THEN still
  ELSE [seen |-> TRUE, same |-> FALSE, ear |-> 0, nose |-> Pt(0, 0)]

\* the refs and the published state a completed callback leaves
Commit(r) ==
  /\ lastEARRef' = r.ear
  /\ lastPositionsRef' = r.pos
  /\ blinkCountRef' = r.blink
  /\ livenessScore' = r.score
  /\ message' = r.message

\* frames in a row, up to this one, that pushed this nose point (frames
\* that push no position do not count and do not interrupt)
NoseRunAfter(nose) ==
  IF last.noseRun > 0 /\ last.nose = nose THEN last.noseRun + 1 ELSE 1

\* what the observers record of a callback that pushed no position
NoPush(kind, c) ==
  [NoFrame EXCEPT !.kind = kind, !.tick = c,
                  !.nose = last.nose, !.noseRun = last.noseRun]

\* the EAR of one eye as the session's file computes it
EyeEAR(eye) == IF variant = "tsx" THEN getEAR(eye) ELSE getEyeAspectRatio(eye)

\* eye[0] and eye[3] are the same point: h = 0
CornersCoincide(eye) == Len(eye) >= 4 /\ eye[1] = eye[4]

\* the baseline detectBlink computes: that of the history the frame leaves
FrameBaseline(hist) ==
  IF variant = "tsx" THEN calculateBaselineEAR(hist) ELSE BaselineOf_p0(hist)

\* what the observers record of a face frame
ObserveFace(c, r, detection, threshold, run) ==
  /\ last' = [kind |-> "face", tick |-> c, ear |-> r.currentEAR,
              prev |-> prevFaceEAR, len |-> Len(r.ear),
              threshold |-> threshold, inc |-> r.blink - blinkCountRef,
              closed |-> r.isEyeClosed, run |-> run, movement |-> r.movement,
              damage |-> Damage(detection), nose |-> detection.nose[1],
              expression |-> ExpressionChange(detection.expressions),
              noseRun |-> NoseRunAfter(detection.nose[1]),
              eyes |-> <<EyeEAR(detection.leftEye), EyeEAR(detection.rightEye)>>,
              pinched |-> <<CornersCoincide(detection.leftEye),
                            CornersCoincide(detection.rightEye)>>,
              baseline |-> FrameBaseline(r.ear)]
  /\ prevFaceEAR' = r.currentEAR
  /\ closedRun' = run
  /\ still' = StillAfter(r.currentEAR, detection.nose[1])
  /\ everVerified' = (everVerified \/ r.message = MsgVerified)

\* the frame's blink threshold: 0.65 of the baseline of the window that
\* holds the frame's sample
FrameThreshold(hist) == BlinkThresholdOf(calculateBaselineEAR(hist))

RunAfter(currentEAR, threshold) == IF currentEAR < threshold THEN closedRun + 1 ELSE 0

\* whether the face branch of the session's file throws on this detection
Throws(detection) ==
  IF variant = "tsx" THEN FaceBranchThrows(detection) ELSE FaceBranchThrows_p0(detection)

\* the detector call of callback c resolves with a face and the face branch
\* runs to its end without suspending
ResolveFace(c, detection) ==
  /\ c \in inflight
  /\ ~Throws(detection)
  /\ inflight' = inflight \ {c}
  /\ \E r \in { IF variant = "tsx"
                 THEN FaceBranch(lastEARRef, lastPositionsRef, blinkCountRef, detection)
                 ELSE FaceBranch_p0(lastEARRef, lastPositionsRef, blinkCountRef, detection) } :
       /\ Commit(r)
       /\ \E threshold \in { FrameThreshold(r.ear) } :
            ObserveFace(c, r, detection, threshold,
                        RunAfter(r.currentEAR, threshold))
  /\ published' = published + 1
  /\ UNCHANGED <<life, sched, ticks, failed>>

\* the detector call of callback c resolves with a face and the face branch
\* throws: the catch of the callback runs after what the branch had written
ResolveFaceThrown(c, detection) ==
  /\ c \in inflight
  /\ Throws(detection)
  /\ inflight' = inflight \ {c}
  /\ \E r \in { IF variant = "tsx"
                 THEN ThrownBranch(lastEARRef, lastPositionsRef, blinkCountRef,
                                   livenessScore, detection)
                 ELSE ThrownBranch_p0(lastEARRef, lastPositionsRef, blinkCountRef,
                                      livenessScore, detection) } :
       /\ Commit(r)
       /\ last' = [NoPush("thrown", c) EXCEPT !.len = Len(r.ear),
                                              !.inc = r.blink - blinkCountRef,
                                              !.damage = Damage(detection)]
  /\ closedRun' = 0
  /\ published' = published + 1
  /\ UNCHANGED <<life, sched, ticks, prevFaceEAR, still, everVerified, failed>>

\* the detector call of callback c resolves with no detection
ResolveNoFace(c) ==
  /\ c \in inflight
  /\ inflight' = inflight \ {c}
  /\ Commit(NoFaceBranch(lastEARRef, lastPositionsRef, blinkCountRef, livenessScore))
  /\ last' = NoPush("noface", c)
  /\ closedRun' = 0
  /\ published' = published + 1
  /\ UNCHANGED <<life, sched, ticks, prevFaceEAR, still, everVerified, failed>>

\* the detector call of callback c throws: the catch of the callback
DetectorThrows(c) ==
  /\ c \in inflight
  /\ inflight' = inflight \ {c}
  /\ Commit(CatchBranch(lastEARRef, lastPositionsRef, blinkCountRef, livenessScore))
  /\ last' = NoPush("error", c)
  /\ closedRun' = 0
  /\ failed' = TRUE
  /\ published' = published + 1
  /\ UNCHANGED <<life, sched, ticks, prevFaceEAR, still, everVerified>>

\* the score and the message selection of updateLivenessScore applied to the
\* three signals: setLivenessScore(score), setMessage(...)
AssessSignals ==
  /\ last.kind = "signals"
  /\ \E r \in { Assess(blinkCountRef, lastPositionsRef, last.movement,
                        last.expression) } :
       /\ livenessScore' = r.score
       /\ message' = r.message
       /\ everVerified' = (r.message = MsgVerified)
  /\ last' = [last EXCEPT !.kind = "assessed"]
  /\ published' = published + 1
  /\ UNCHANGED <<life, sched, calls, refs, prevFaceEAR, closedRun, still, failed>>

----------------------------------------------------------------------------
(* Specifications *)

\* a session: any interleaving of the lifecycle, the timers and the detector
Next ==
  \/ LoadModelsOk
  \/ LoadModelsFail
  \/ StartVideoOk
  \/ StartVideoFail
  \/ handleVideoPlay(MaxPlays)
  \/ Cleanup
  \/ \E t \in timers : Tick(t, MaxTicks, MaxInFlight)
  \/ \E c \in inflight : \E d \in Faces : ResolveFace(c, d)
  \/ \E c \in inflight : ResolveNoFace(c)
  \/ \E c \in inflight : DetectorThrows(c)

Spec == Init /\ [][Next]_vars

\* a long session of face frames, one detector call at a time
NextSeq ==
  \/ LoadModelsOk
  \/ StartVideoOk
  \/ handleVideoPlay(1)
  \/ \E t \in timers : Tick(t, MaxSeqTicks, 1)
  \/ \E c \in inflight : \E d \in SeqFaces : ResolveFace(c, d)

SpecSeq == Init /\ [][NextSeq]_vars

\* a long session of a subject who opens and shuts the eyes and moves the
\* head, one detector call at a time
NextWalk ==
  \/ LoadModelsOk
  \/ StartVideoOk
  \/ handleVideoPlay(1)
  \/ \E t \in timers : Tick(t, MaxWalkTicks, 1)
  \/ \E c \in inflight : \E d \in WalkFaces : ResolveFace(c, d)

SpecWalk == Init /\ [][NextWalk]_vars

\* the score and the message selection on every combination of signals
NextSignals == AssessSignals

SpecSignals == InitSignals /\ [][NextSignals]_vars

\* a session whose detector hands over sound, pinched and damaged landmarks,
\* one detector call at a time
NextDamaged ==
  \/ LoadModelsOk
  \/ StartVideoOk
  \/ handleVideoPlay(1)
  \/ \E t \in timers : Tick(t, MaxTicks, 1)
  \/ \E c \in inflight : \E d \in SoundFaces \cup PinchedFaces \cup DamagedFaces :
       ResolveFace(c, d)
  \/ \E c \in inflight : \E d \in DamagedFaces : ResolveFaceThrown(c, d)

SpecDamaged == Init /\ [][NextDamaged]_vars

----------------------------------------------------------------------------
(* Claims *)

\* C1: as long as every face frame of the session has had the same EAR and
\* the same nose position, the blink count is 0 and the 'Live face
\* verified' message has never been published.
C1_StaticPhotoResisted == still.same => (blinkCountRef = 0 /\ ~everVerified)

\* a static stream long enough for detectBlink to compare has been processed
C1_StaticStreamProcessed ==
  /\ still.seen /\ still.same
  /\ variant = "tsx"
  /\ last.kind = "face" /\ last.len >= MinSamples

\* C2: on a face frame that leaves at least 3 samples in the EAR history the
\* blink count grows by 1 if the preceding face frame's EAR is above and the
\* frame's EAR below 0.65 of the baseline of the history that holds the
\* frame's sample, and by 0 otherwise.
C2_FallingEdgeCounted ==
  (last.kind = "face" /\ last.len >= MinSamples)
    => last.inc = (IF last.prev > last.threshold /\ last.ear < last.threshold
                   THEN 1 ELSE 0)

\* C3: within a run of consecutive face frames that are each below their
\* own blink threshold, the blink count grows at the first frame of the run
\* only.
C3_NoCountInsideClosure == (last.kind = "face" /\ last.inc > 0) => last.run <= 1

\* C4: a step leaves the blink count as it is or adds exactly 1 to it; it
\* never decreases and is never reset.
C4_BlinkCountMonotone ==
  [][blinkCountRef' = blinkCountRef \/ blinkCountRef' = blinkCountRef + 1]_vars

\* blinks have been counted and a frame without a face came after them
C4_CountKeptAfterBlinks == blinkCountRef >= 1 /\ last.kind = "noface"

\* C5: at most one interval callback is suspended in its detector call at
\* any time.
C5_OnePipelineAtATime == Cardinality(inflight) <= 1

\* C6: once the cleanup has run, no frame callback publishes any more.
C6_NoPublishAfterCleanup == [][~mounted => published' = published]_vars

\* C7: once the cleanup has run, no interval started by handleVideoPlay is
\* still running.
C7_CleanupStopsTimers == ~mounted => timers = {}

\* C8: a callback whose detection holds no face leaves the EAR history, the
\* position history and the blink count as they were and publishes the
\* 'No face detected' message.
C8_NoFaceKeepsState ==
  [][(published' = published + 1 /\ last'.kind = "noface")
       => /\ lastEARRef' = lastEARRef
          /\ lastPositionsRef' = lastPositionsRef
          /\ blinkCountRef' = blinkCountRef
          /\ message' = MsgNoFace]_vars

\* a frame without a face was processed with samples in both histories
C8_NoFaceAfterFaces ==
  /\ last.kind = "noface"
  /\ Len(lastEARRef) >= 2 /\ Len(lastPositionsRef) >= 2
  /\ message = MsgNoFace

\* C9: after a frame with no face the reported liveness score is 0.
C9_NoFaceScoreZero == last.kind = "noface" => livenessScore = 0

\* C10: once a detector call has thrown, no interval callback starts (no
\* detector call is issued) any more.
C10_FailureStopsLoop == [][failed => ticks' = ticks]_vars

\* C11: a face frame with a damaged eye or without a nose point is processed
\* as a face frame: it publishes a score and a guidance message, its
\* movement is 0 when the nose is missing, and its EAR is the mean of 0 and
\* the sound eye's EAR when an eye is damaged.
C11_DamagedLandmarksDegrade ==
  (last.damage # "ok")
    => /\ last.kind = "face"
       /\ message # MsgDetectionError
       /\ last.damage = "nose" => last.movement = 0
       /\ last.damage = "eye" => last.ear = getEAR(Eye(30)) \div 2

\* the last n entries of s
LastN(s, n) == IF Len(s) <= n THEN s ELSE SubSeq(s, Len(s) - n + 1, Len(s))

\* the EAR samples a face frame with EAR e pushes, in push order
EARPushes(e) == IF variant = "tsx" THEN <<e>> ELSE <<e, e>>

\* C12: neither history ever holds more than 10 entries, and a face frame
\* leaves in each history the last 10 of the old entries followed by the
\* values the frame pushed: the oldest entries go first, the order is kept.
C12_HistoriesAreFifoWindows ==
  [][/\ Len(lastEARRef') <= HistoryCap
     /\ Len(lastPositionsRef') <= HistoryCap
     /\ (published' = published + 1 /\ last'.kind = "face")
          => /\ lastEARRef' = LastN(lastEARRef \o EARPushes(last'.ear), HistoryCap)
             /\ lastPositionsRef'
                  = LastN(Append(lastPositionsRef, last'.nose), HistoryCap)]_vars

\* the 11th face frame has pushed onto two full histories whose oldest and
\* newest entries differ
C12_EleventhFramePushed ==
  /\ last.kind = "face" /\ last.tick = HistoryCap + 1
  /\ Len(lastEARRef) = HistoryCap /\ Len(lastPositionsRef) = HistoryCap
  /\ lastEARRef[1] # lastEARRef[HistoryCap]
  /\ lastPositionsRef[1] # lastPositionsRef[HistoryCap]

\* C13: the published score lies in [0, 1], is exactly 1 when the weighted
\* sum of the three signals is at least 1, and no signal, raised with the
\* other two held, lowers it.
C13_ScoreCappedAndMonotone ==
  last.kind = "assessed"
    => /\ 0 <= livenessScore /\ livenessScore <= ScoreScale
       /\ WeightedSum(blinkCountRef, last.movement, last.expression) >= ScoreScale
            => livenessScore = ScoreScale
       /\ \A b \in SignalBlinks :
            b >= blinkCountRef
              => LivenessScoreOf(b, last.movement, last.expression) >= livenessScore
       /\ \A m \in SignalMovements :
            m >= last.movement
              => LivenessScoreOf(blinkCountRef, m, last.expression) >= livenessScore
       /\ \A e \in SignalExpressions :
            e >= last.expression
              => LivenessScoreOf(blinkCountRef, last.movement, e) >= livenessScore

\* signals whose weighted sum exceeds 1 have been scored
C13_SumAboveOneScored ==
  /\ last.kind = "assessed"
  /\ WeightedSum(blinkCountRef, last.movement, last.expression) > ScoreScale
  /\ livenessScore = ScoreScale

\* C14: the message of an assessment is chosen in this order: score > 0.7
\* with fewer than 2 blinks asks to blink (naming the count), else score >
\* 0.7 with movement below 0.1 asks to move, else score > 0.7 is the
\* verified message, and score <= 0.7 asks to position the face; 2 blinks,
\* movement 0.15 and expression change 0.5 score 1 and are verified.
C14_MessagePriority ==
  last.kind = "assessed"
    => /\ (livenessScore > ScoreGate /\ blinkCountRef = 0) => message = MsgBlink0
       /\ (livenessScore > ScoreGate /\ blinkCountRef = 1) => message = MsgBlink1
       /\ (livenessScore > ScoreGate /\ blinkCountRef >= RequiredBlinks
              /\ last.movement < MovementGate) => message = MsgMove
       /\ (livenessScore > ScoreGate /\ blinkCountRef >= RequiredBlinks
              /\ last.movement >= MovementGate) => message = MsgVerified
       /\ livenessScore <= ScoreGate => message = MsgPosition
       /\ (blinkCountRef = 2 /\ last.movement = (MoveScale * 3) \div 20
              /\ last.expression = ProbScale \div 2)
            => (livenessScore = ScoreScale /\ message = MsgVerified)

\* an assessment with score > 0.7 where both the blink test and the movement
\* test fail: the blink message wins
C14_BlinkAskedBeforeMove ==
  /\ last.kind = "assessed"
  /\ livenessScore > ScoreGate
  /\ blinkCountRef = 1 /\ last.movement < MovementGate
  /\ message = MsgBlink1

\* C15: the movement of a face frame is 0 when it is the first in the
\* position history, when all positions in the history are the same, and
\* when the last 10 frames in a row had the same nose point.
C15_StationaryMovementZero ==
  last.kind = "face"
    => /\ Len(lastPositionsRef) < 2 => last.movement = 0
       /\ (\A i \in 1 .. Len(lastPositionsRef) : lastPositionsRef[i] = last.nose)
            => last.movement = 0
       /\ last.noseRun >= HistoryCap => last.movement = 0

\* the subject moved at the start of the session and then held the nose
\* still, away from the origin, for 10 frames
C15_StillAfterMoving ==
  /\ last.kind = "face" /\ last.tick = HistoryCap + 1
  /\ last.noseRun = HistoryCap
  /\ last.nose # Pt(0, 0)
  /\ last.movement = 0

\* C16: an eye whose corners coincide has EAR 0 and the frame is processed
\* as a face frame; the frame's EAR is then half the other eye's EAR.
C16_PinchedEyeIsZero ==
  last.kind = "face"
    => /\ last.pinched[1] => (last.eyes[1] = 0 /\ last.ear = (0 + last.eyes[2]) \div 2)
       /\ last.pinched[2] => (last.eyes[2] = 0 /\ last.ear = (last.eyes[1] + 0) \div 2)

\* a frame with one pinched and one open eye has been processed
C16_OnePinchedEyeProcessed ==
  /\ last.kind = "face"
  /\ last.pinched[1] /\ ~last.pinched[2]
  /\ last.eyes[2] > 0 /\ last.ear > 0
  /\ message # MsgDetectionError

\* C17: a face frame appends exactly one sample, its EAR, to the EAR
\* history: the history grows by 1 until it holds 10 entries, and then
\* loses its oldest entry for the new one.
C17_OnePushPerFaceFrame ==
  [][(published' = published + 1 /\ last'.kind = "face")
       => lastEARRef' = LastN(Append(lastEARRef, last'.ear), HistoryCap)]_vars

\* sortedEARs.slice(0, 3): the up to 3 largest samples of the history
LargestSamples(hist) == SliceFirst(SortDesc(hist), BaselineTop)

\* C18: the baseline of a face frame is the mean of the 3 largest samples of
\* the EAR history, and the mean of all samples when the history holds
\* fewer than 3: baseline times the number of samples averaged is their sum.
C18_BaselineIsMeanOfLargest ==
  last.kind = "face"
    => last.baseline * Len(LargestSamples(lastEARRef)) = SumSeq(LargestSamples(lastEARRef))

C20_VerifiedIffBlinksAndMovement ==
  last.kind \in {"assessed", "face"}
    => /\ message = MsgVerified
            <=> (blinkCountRef >= RequiredBlinks /\ last.movement >= MovementGate)
       /\ (blinkCountRef >= RequiredBlinks /\ last.movement >= MovementGate)
            => livenessScore * 10 >= ScoreScale * 8

\* the weakest signals that verify: 2 blinks, movement 0.1, no expression
C20_VerifiedAtTheGates ==
  /\ last.kind = "assessed"
  /\ blinkCountRef = RequiredBlinks
  /\ last.movement = MovementGate
  /\ last.expression = 0
  /\ livenessScore * 10 = ScoreScale * 8
  /\ message = MsgVerified

\* C21: on a face frame the blink threshold (0.65 of the baseline
\* detectBlink computes) does not exceed the display threshold (0.75 of the
\* baseline the frame is drawn with), and a frame that adds to the blink
\* count is drawn with closed eyes.
C21_BlinkOnlyOnClosedFrame ==
  [][(published' = published + 1 /\ last'.kind = "face")
       => /\ last'.threshold
               <= DisplayThresholdOf(calculateBaselineEAR(
                    LastN(Append(lastEARRef, last'.ear), HistoryCap)))
          /\ last'.inc > 0 => last'.closed]_vars

\* C22: the interval callbacks complete in the order of their ticks: a
\* callback that writes the histories and publishes was started by a later
\* tick than the callback that did so before it.
C22_FramesTakeEffectInTickOrder ==
  [][(published' = published + 1 /\ last'.kind # "assessed")
       => last'.tick > last.tick]_vars

=============================================================================
